---- MODULE Spec2Model ----
(***************************************************************************)
(* Model of shadowsocks/core.py: the per-connection protocol state machine *)
(* (LocalHandler), the TCP acceptor protocol (LocalTCP), the upstream half *)
(* (RemoteTCP), the UDP acceptor (LocalUDP) and the UDP upstream half      *)
(* (RemoteUDP).                                                            *)
(*                                                                         *)
(* Every method of the source is an operator from a program state (a       *)
(* record with one field per variable) to the program state after the      *)
(* call; an action applies the operator of one event-loop callback to the  *)
(* current state.  The handshake coroutine _handle_stage_init is cut at    *)
(* its only await into a start step, a resume step and a failure step.     *)
(***************************************************************************)
EXTENDS Integers, Sequences, FiniteSets, TLC

\* ------------------------------------------------------------------ bounds
MaxChunks == 2      \* client TCP data_received events
MaxTasks == 2       \* handshake tasks spawned by asyncio.create_task
MaxUpChunks == 2    \* upstream data_received events
MaxPeers == 2       \* UDP client endpoints
MaxDgrams == 3      \* client datagrams
MaxReplies == 3     \* datagrams an upstream sends back

\* --------------------------------------------------------- program constants
STAGE_INIT == 0
STAGE_CONNECT == 1
STAGE_STREAM == 2
STAGE_DESTROY == -1
STAGE_ERROR == 255
\* LocalHandler.__init__ leaves _stage = None until _init_transport runs
STAGE_NONE == -2

TRANSPORT_TCP == "tcp"
TRANSPORT_UDP == "udp"
NO_PROTOCOL == "none"

\* ----------------------------------------------------------- byte sequences
IsPrefix(a, b) == Len(a) <= Len(b) /\ SubSeq(b, 1, Len(a)) = a

Drop(s, n) == SubSeq(s, n + 1, Len(s))

RECURSIVE Flat(_)
Flat(ss) == IF ss = <<>> THEN <<>> ELSE Head(ss) \o Flat(Tail(ss))

\* ------------------------------------------------------------------ cipher
\* The codec is an external collaborator: a frame is a marker byte followed
\* by the shifted plaintext.  decrypt raises on a frame without the marker
\* and returns empty bytes for a frame that carries no plaintext yet.
FrameMark == 200
KeyShift == 7

encrypt(p) == <<FrameMark>> \o [i \in 1..Len(p) |-> (p[i] + KeyShift) % 256]

decrypt(c) ==
    IF c = <<>> \/ c[1] # FrameMark
    THEN [ok |-> FALSE, data |-> <<>>]
    ELSE [ok |-> TRUE,
          data |-> [i \in 1..(Len(c) - 1) |-> (c[i + 1] + 256 - KeyShift) % 256]]

\* -------------------------------------------------------------- parse_header
\* shadowsocks.utils.parse_header: (atyp, host, port, consumed), all null on
\* failure.  Only the IPv4 form of the address header is modelled.
ATYP_IPV4 == 1
IPV4_HEADER_LEN == 7

NullHeader == [addr_type |-> 0, dst_addr |-> <<>>, dst_port |-> 0, header_length |-> 0]

parse_header(data) ==
    IF Len(data) >= IPV4_HEADER_LEN /\ data[1] = ATYP_IPV4
    THEN [addr_type |-> ATYP_IPV4,
          dst_addr |-> SubSeq(data, 2, 5),
          dst_port |-> data[6] * 256 + data[7],
          header_length |-> IPV4_HEADER_LEN]
    ELSE NullHeader

\* all([addr_type, dst_addr, dst_port, header_length]) of line 116
all_fields(hd) ==
    hd.addr_type # 0 /\ hd.dst_addr # <<>> /\ hd.dst_port # 0 /\ hd.header_length # 0

\* ------------------------------------------------------------------ inputs
HeaderA == <<1, 10, 0, 0, 1, 0, 80>>
BadChunk == <<13>>
EmptyFrame == <<FrameMark>>

\* The n-th chunk a client sends is one of: a frame that fails to decrypt, a
\* frame without plaintext, an address header followed by one payload byte,
\* or one payload byte alone.  The payload byte names the chunk's position.
HeaderChunk(n) == encrypt(HeaderA \o <<64 + n>>)
ClientChunks(n) == {BadChunk, EmptyFrame, HeaderChunk(n), encrypt(<<64 + n>>)}

\* Only the INIT stage parses a header; in every other stage a chunk is payload
\* whatever its bytes are, so the header-carrying chunk is offered to a stream
\* session only while its stage is INIT.
StreamChunks(st, n) ==
    IF st = STAGE_INIT THEN ClientChunks(n) ELSE ClientChunks(n) \ {HeaderChunk(n)}

\* the n-th chunk an upstream delivers
UpChunk(n) == <<96 + n>>

TcpHandler == 0
Peers == 1..MaxPeers
Handlers == {TcpHandler} \cup Peers
TaskIds == 1..MaxTasks

VARIABLES
    proto,           \* LocalHandler._transport_protocol, per handler
    stage,           \* LocalHandler._stage
    is_closing,      \* LocalHandler._is_closing
    connect_buffer,  \* LocalHandler._connect_buffer
    remote,          \* LocalHandler._remote (0 = None, else the RemoteTCP's id)
    ltrans,          \* the accepted client TCP transport
    tasks,           \* handshake tasks created by asyncio.create_task
    rem,             \* RemoteTCP objects, one per task that connected
    gauge,           \* ACTIVE_CONNECTION_COUNT
    user_tcp_decs,   \* calls of cipher.incr_user_tcp_num(-1)
    record_ip,       \* calls of cipher.record_user_ip
    udp_sent,        \* datagrams sent on the UDP acceptor's socket
    protocols,       \* LocalUDP._protocols: the peers that have a handler
    rudp,            \* a RemoteUDP object
    udp_up,          \* datagrams sent on a RemoteUDP's upstream socket
    error_seen,      \* per handler: _stage was assigned STAGE_ERROR
    unhandled,       \* a callback raised an exception into the event loop
    hist             \* history: what the environment has delivered

vars == <<proto, stage, is_closing, connect_buffer, remote, ltrans, tasks, rem,
          gauge, user_tcp_decs, record_ip, udp_sent, protocols, rudp, udp_up,
          error_seen, unhandled, hist>>

\* The program state as one record, and its installation as the next state.
Cur ==
    [proto |-> proto, stage |-> stage, is_closing |-> is_closing,
     connect_buffer |-> connect_buffer, remote |-> remote, ltrans |-> ltrans,
     tasks |-> tasks, rem |-> rem, gauge |-> gauge,
     user_tcp_decs |-> user_tcp_decs, record_ip |-> record_ip,
     udp_sent |-> udp_sent, protocols |-> protocols, rudp |-> rudp,
     udp_up |-> udp_up, error_seen |-> error_seen, unhandled |-> unhandled,
     hist |-> hist]

Commit(w) ==
    /\ proto' = w.proto
    /\ stage' = w.stage
    /\ is_closing' = w.is_closing
    /\ connect_buffer' = w.connect_buffer
    /\ remote' = w.remote
    /\ ltrans' = w.ltrans
    /\ tasks' = w.tasks
    /\ rem' = w.rem
    /\ gauge' = w.gauge
    /\ user_tcp_decs' = w.user_tcp_decs
    /\ record_ip' = w.record_ip
    /\ udp_sent' = w.udp_sent
    /\ protocols' = w.protocols
    /\ rudp' = w.rudp
    /\ udp_up' = w.udp_up
    /\ error_seen' = w.error_seen
    /\ unhandled' = w.unhandled
    /\ hist' = w.hist

\* -------------------------------------------------------------- transports
\* An asyncio stream transport: open, closing (close() was called or the peer
\* reset the connection, and connection_lost is scheduled but not yet
\* delivered) or lost.  closes counts the calls of close(); paused is set
\* between pause_reading() and resume_reading().
NoTransport == [st |-> "none", closes |-> 0, paused |-> FALSE]
OpenTransport == [st |-> "open", closes |-> 0, paused |-> FALSE]

transport_close(tr) ==
    [tr EXCEPT !.st = IF @ = "open" THEN "closing" ELSE @, !.closes = @ + 1]

transport_is_closing(tr) == tr.st # "open"

\* transport.pause_reading() / resume_reading(): no effect on a transport that
\* is closing or already in the requested state
transport_pause_reading(tr) ==
    IF tr.st = "open" THEN [tr EXCEPT !.paused = TRUE] ELSE tr

transport_resume_reading(tr) ==
    IF tr.st = "open" THEN [tr EXCEPT !.paused = FALSE] ELSE tr

\* The client transport also records what was written to it (out) and whether
\* its write buffer is over the high-water mark (protocol_paused: the
\* transport has called pause_writing and not yet resume_writing).
ClientSide == [out |-> <<>>, protocol_paused |-> FALSE]

NoTask == [h |-> TcpHandler, pc |-> "none", data |-> <<>>]
NoRemote == [local |-> TcpHandler, made |-> FALSE, ready |-> FALSE,
             is_closing |-> FALSE, transport |-> NoTransport, writes |-> <<>>]


\* ------------------------------------------------------------ LocalHandler
RECURSIVE LocalHandler_close(_, _), RemoteTCP_close(_, _)

\* RemoteTCP.close without the self.local.close() of line 228
RemoteTCP_close_no_propagate(w, r) ==
    IF w.rem[r].is_closing
    THEN w
    ELSE LET w1 == [w EXCEPT !.rem[r].is_closing = TRUE, !.gauge = @ - 1]
         IN IF w1.rem[r].transport.st # "none"
            THEN [w1 EXCEPT !.rem[r].transport = transport_close(@)]
            ELSE w1

\* RemoteTCP.close
RemoteTCP_close(w, r) ==
    IF w.rem[r].is_closing
    THEN w
    ELSE LET w1 == [w EXCEPT !.rem[r].is_closing = TRUE, !.gauge = @ - 1]
             w2 == IF w1.rem[r].transport.st # "none"
                   THEN [w1 EXCEPT !.rem[r].transport = transport_close(@)]
                   ELSE w1
         IN LocalHandler_close(w2, w2.rem[r].local)

\* LocalHandler.close
LocalHandler_close(w, h) ==
    LET w1 == [w EXCEPT !.stage[h] = STAGE_DESTROY]
    IN IF w1.is_closing[h]
       THEN w1
       ELSE LET w2 == [w1 EXCEPT !.is_closing[h] = TRUE, !.gauge = @ - 1]
                w3 == IF w2.proto[h] = TRANSPORT_TCP
                      THEN [w2 EXCEPT !.ltrans = transport_close(@),
                                      !.user_tcp_decs = @ + 1]
                      ELSE w2
            IN IF w3.remote[h] # 0
               THEN RemoteTCP_close(w3, w3.remote[h])
               ELSE w3

\* LocalHandler.write without the is_closing() test of line 71
LocalHandler_write_unguarded(w, h, data) ==
    IF w.proto[h] = TRANSPORT_TCP
    THEN [w EXCEPT !.ltrans.out = Append(@, data)]
    ELSE [w EXCEPT !.udp_sent = Append(@, [data |-> data, peer |-> h])]

\* LocalHandler.write
LocalHandler_write(w, h, data) ==
    IF w.proto[h] = TRANSPORT_TCP
    THEN IF transport_is_closing(w.ltrans)
         THEN w
         ELSE [w EXCEPT !.ltrans.out = Append(@, data)]
    ELSE [w EXCEPT !.udp_sent = Append(@, [data |-> data, peer |-> h])]

\* LocalHandler.handle_connection_made (_init_transport, _init_cipher)
handle_connection_made(w, h, transport_protocol) ==
    [w EXCEPT !.stage[h] = STAGE_INIT, !.proto[h] = transport_protocol]

\* RemoteTCP.write
RemoteTCP_write(w, r, data) ==
    IF ~transport_is_closing(w.rem[r].transport)
    THEN [w EXCEPT !.rem[r].writes = Append(@, [kind |-> "stream", data |-> data])]
    ELSE w

\* LocalHandler._handle_stage_stream; with self._remote None the attribute
\* access raises and the exception leaves the callback
handle_stage_stream(w, h, data) ==
    IF w.remote[h] = 0
    THEN [w EXCEPT !.unhandled = TRUE]
    ELSE RemoteTCP_write(w, w.remote[h], data)

\* LocalHandler._handle_stage_connect entering STREAM without the test of
\* line 154
handle_stage_connect_streams_early(w, h, data) ==
    IF w.remote[h] = 0 \/ w.rem[w.remote[h]].ready = FALSE
    THEN [w EXCEPT !.connect_buffer[h] = @ \o data, !.stage[h] = STAGE_STREAM]
    ELSE handle_stage_stream([w EXCEPT !.stage[h] = STAGE_STREAM], h, data)

\* LocalHandler._handle_stage_connect
handle_stage_connect(w, h, data) ==
    IF w.remote[h] = 0 \/ w.rem[w.remote[h]].ready = FALSE
    THEN [w EXCEPT !.connect_buffer[h] = @ \o data]
    ELSE handle_stage_stream([w EXCEPT !.stage[h] = STAGE_STREAM], h, data)

\* asyncio.create_task(self._handle_stage_init(data)): the next unused task
FreeTasks(w) == {t \in TaskIds : w.tasks[t].pc = "none"}
NewTask(w) == CHOOSE t \in FreeTasks(w) : \A u \in FreeTasks(w) : t <= u

\* the handshake-task bound: a chunk that would spawn a task needs a free one
Spawns(w, h, data) ==
    decrypt(data).ok /\ decrypt(data).data # <<>> /\ w.stage[h] = STAGE_INIT

create_task(w, h, data) ==
    [w EXCEPT !.tasks[NewTask(w)] = [h |-> h, pc |-> "spawned", data |-> data]]

\* LocalHandler.handle_data_received with a decrypt failure swallowed
handle_data_received_bad_ignored(w, h, data) ==
    LET d == decrypt(data)
    IN IF ~d.ok THEN w
       ELSE IF d.data = <<>> THEN w
       ELSE IF w.stage[h] = STAGE_INIT THEN create_task(w, h, d.data)
       ELSE IF w.stage[h] = STAGE_CONNECT THEN handle_stage_connect(w, h, d.data)
       ELSE IF w.stage[h] = STAGE_STREAM THEN handle_stage_stream(w, h, d.data)
       ELSE LocalHandler_close(w, h)

\* LocalHandler.handle_data_received without the "if not data: return" of
\* lines 98-99
handle_data_received_empty_dispatched(w, h, data) ==
    LET d == decrypt(data)
    IN IF ~d.ok THEN LocalHandler_close(w, h)
       ELSE IF w.stage[h] = STAGE_INIT THEN create_task(w, h, d.data)
       ELSE IF w.stage[h] = STAGE_CONNECT THEN handle_stage_connect(w, h, d.data)
       ELSE IF w.stage[h] = STAGE_STREAM THEN handle_stage_stream(w, h, d.data)
       ELSE LocalHandler_close(w, h)

\* LocalHandler.handle_data_received
handle_data_received(w, h, data) ==
    LET d == decrypt(data)
    IN IF ~d.ok THEN LocalHandler_close(w, h)
       ELSE IF d.data = <<>> THEN w
       ELSE IF w.stage[h] = STAGE_INIT THEN create_task(w, h, d.data)
       ELSE IF w.stage[h] = STAGE_CONNECT THEN handle_stage_connect(w, h, d.data)
       ELSE IF w.stage[h] = STAGE_STREAM THEN handle_stage_stream(w, h, d.data)
       ELSE IF w.stage[h] = STAGE_ERROR THEN LocalHandler_close(w, h)
       ELSE IF w.stage[h] = STAGE_DESTROY THEN LocalHandler_close(w, h)
       ELSE w

\* LocalHandler._handle_stage_init, from its start to the await of the connect.
\* The UDP branch reads self.create_datagram_endpoint, which LocalHandler does
\* not define: the AttributeError is raised inside the try and caught by the
\* except branch, so the UDP branch never suspends.
handle_stage_init_start(w, t) ==
    LET h == w.tasks[t].h
        data == w.tasks[t].data
        hd == parse_header(data)
    IN IF ~all_fields(hd)
       THEN LocalHandler_close([w EXCEPT !.tasks[t].pc = "done"], h)
       ELSE LET payload == Drop(data, hd.header_length)
            IN IF w.proto[h] = TRANSPORT_TCP
               THEN handle_stage_connect(
                        [w EXCEPT !.stage[h] = STAGE_CONNECT, !.tasks[t].pc = "awaiting"],
                        h, payload)
               ELSE LocalHandler_close(
                        [w EXCEPT !.stage[h] = STAGE_ERROR, !.error_seen[h] = TRUE,
                                  !.tasks[t].pc = "done"], h)

\* LocalHandler._handle_stage_init: the awaited create_connection raised
handle_stage_init_failed(w, t) ==
    LET h == w.tasks[t].h
    IN LocalHandler_close([w EXCEPT !.stage[h] = STAGE_ERROR, !.error_seen[h] = TRUE,
                                    !.tasks[t].pc = "done"], h)

\* LocalHandler._handle_stage_init: the awaited create_connection returned
handle_stage_init_resume(w, t) ==
    LET h == w.tasks[t].h
    IN [w EXCEPT !.remote[h] = t, !.record_ip = @ + 1, !.tasks[t].pc = "done"]

\* --------------------------------------------------------------- RemoteTCP
\* RemoteTCP.__init__ (the protocol factory of create_connection) followed by
\* RemoteTCP.connection_made
RemoteTCP_connection_made(w, r) ==
    LET h == w.tasks[r].h
    IN [w EXCEPT !.rem[r] = [local |-> h, made |-> TRUE, ready |-> TRUE,
                             is_closing |-> FALSE, transport |-> OpenTransport,
                             writes |-> <<[kind |-> "flush",
                                           data |-> w.connect_buffer[h]]>>],
                 !.gauge = @ + 1]

\* RemoteTCP.data_received
RemoteTCP_data_received(w, r, data) ==
    LocalHandler_write(w, w.rem[r].local, encrypt(data))

\* RemoteTCP.pause_reading and RemoteTCP.resume_reading: public methods that
\* pause and resume reading on the client transport of the session.  Nothing
\* in core.py calls them and the event loop does not either (the callbacks a
\* transport invokes on its protocol for write-side flow control are
\* pause_writing and resume_writing, which RemoteTCP inherits as the no-ops of
\* asyncio.Protocol); they run when code that holds the RemoteTCP calls them.
RemoteTCP_pause_reading(w, r) ==
    [w EXCEPT !.ltrans = transport_pause_reading(@)]

RemoteTCP_resume_reading(w, r) ==
    [w EXCEPT !.ltrans = transport_resume_reading(@)]

\* RemoteTCP.eof_received
RemoteTCP_eof_received(w, r) == RemoteTCP_close(w, r)

\* RemoteTCP.connection_lost
RemoteTCP_connection_lost(w, r) == RemoteTCP_close(w, r)

\* ---------------------------------------------------------------- LocalTCP
\* LocalTCP.connection_made
LocalTCP_connection_made(w) ==
    LET w1 == handle_connection_made([w EXCEPT !.ltrans = OpenTransport @@ ClientSide],
                                     TcpHandler, TRANSPORT_TCP)
    IN [w1 EXCEPT !.gauge = @ + 1]

\* LocalTCP.pause_writing: self._handler._remote._transport.pause_reading();
\* with self._handler._remote None the attribute access raises
LocalTCP_pause_writing(w) ==
    IF w.remote[TcpHandler] = 0
    THEN [w EXCEPT !.unhandled = TRUE]
    ELSE [w EXCEPT !.rem[w.remote[TcpHandler]].transport = transport_pause_reading(@)]

\* LocalTCP.resume_writing
LocalTCP_resume_writing(w) ==
    IF w.remote[TcpHandler] = 0
    THEN [w EXCEPT !.unhandled = TRUE]
    ELSE [w EXCEPT !.rem[w.remote[TcpHandler]].transport = transport_resume_reading(@)]

\* LocalTCP.data_received
LocalTCP_data_received(w, data) == handle_data_received(w, TcpHandler, data)

\* LocalTCP.eof_received -> LocalHandler.handle_eof_received
LocalTCP_eof_received(w) == LocalHandler_close(w, TcpHandler)

\* LocalTCP.connection_lost -> LocalHandler.handle_connection_lost
LocalTCP_connection_lost(w) == LocalHandler_close(w, TcpHandler)

\* ---------------------------------------------------------------- LocalUDP
\* LocalUDP.datagram_received without the lookup of line 272: every datagram
\* gets handle_connection_made
LocalUDP_datagram_received_always_new(w, data, peername) ==
    handle_data_received(
        handle_connection_made([w EXCEPT !.protocols = @ \cup {peername}],
                               peername, TRANSPORT_UDP),
        peername, data)

\* LocalUDP.datagram_received
LocalUDP_datagram_received(w, data, peername) ==
    LET w1 == IF peername \in w.protocols
              THEN w
              ELSE handle_connection_made(
                       [w EXCEPT !.protocols = @ \cup {peername}],
                       peername, TRANSPORT_UDP)
    IN handle_data_received(w1, peername, data)


\* --------------------------------------------------------------- RemoteUDP
\* A textual address is a sequence of numbers separated by Dot ("a.b.c.d") or
\* by Colon (the eight groups of an IPv6 address, written in full).
Dot == -1
Colon == -2

Contains(addr, tok) == \E i \in 1..Len(addr) : addr[i] = tok

\* addr is n numbers below limit separated by the token sep
IsSeparated(addr, n, sep, limit) ==
    /\ Len(addr) = 2 * n - 1
    /\ \A i \in 1..Len(addr) :
           IF i % 2 = 1 THEN addr[i] \in 0..(limit - 1) ELSE addr[i] = sep

\* socket.inet_pton(socket.AF_INET, addr): the four bytes of a dotted quad;
\* any other text raises OSError (ok = FALSE)
inet_pton_v4(addr) ==
    IF IsSeparated(addr, 4, Dot, 256)
    THEN [ok |-> TRUE, bytes |-> SelectSeq(addr, LAMBDA x : x # Dot)]
    ELSE [ok |-> FALSE, bytes |-> <<>>]

\* socket.inet_pton(socket.AF_INET6, addr): sixteen bytes, two per group, for
\* eight groups or for six groups followed by a dotted quad; any other text
\* raises OSError (ok = FALSE)
inet_pton_v6(addr) ==
    LET pairs(groups) ==
            Flat([i \in 1..Len(groups) |-> <<groups[i] \div 256, groups[i] % 256>>])
    IN IF IsSeparated(addr, 8, Colon, 65536)
       THEN [ok |-> TRUE, bytes |-> pairs(SelectSeq(addr, LAMBDA x : x # Colon))]
       ELSE IF /\ Len(addr) = 19
               /\ IsSeparated(SubSeq(addr, 1, 11), 6, Colon, 65536)
               /\ addr[12] = Colon
               /\ IsSeparated(SubSeq(addr, 13, 19), 4, Dot, 256)
       THEN [ok |-> TRUE,
             bytes |-> pairs(SelectSeq(SubSeq(addr, 1, 11), LAMBDA x : x # Colon))
                       \o SelectSeq(SubSeq(addr, 13, 19), LAMBDA x : x # Dot)]
       ELSE [ok |-> FALSE, bytes |-> <<>>]

\* struct.pack("!H", port)
pack_H(port) == <<port \div 256, port % 256>>

NoRemoteUDP ==
    [exists |-> FALSE, data |-> <<>>, local |-> 0, has_local |-> FALSE,
     peername |-> [addr |-> <<>>, port |-> 0], dst |-> [addr |-> <<>>, port |-> 0],
     transport |-> NoTransport, is_closing |-> FALSE]

\* RemoteUDP.__init__
RemoteUDP_init(w, addr, port, data, local_hander) ==
    [w EXCEPT !.rudp = [NoRemoteUDP EXCEPT !.exists = TRUE, !.data = data,
                                           !.local = local_hander, !.has_local = TRUE,
                                           !.dst = [addr |-> addr, port |-> port]]]

\* RemoteUDP.write
RemoteUDP_write(w, data) ==
    IF w.rudp.transport.st # "none" /\ ~transport_is_closing(w.rudp.transport)
    THEN [w EXCEPT !.udp_up = Append(@, data)]
    ELSE w

\* RemoteUDP.close
RemoteUDP_close(w) ==
    IF w.rudp.is_closing
    THEN w
    ELSE LET w1 == [w EXCEPT !.rudp.is_closing = TRUE]
             w2 == IF w1.rudp.transport.st # "none"
                   THEN [w1 EXCEPT !.rudp.transport = transport_close(@)]
                   ELSE w1
         IN [w2 EXCEPT !.rudp.has_local = FALSE]

\* RemoteUDP.connection_made
RemoteUDP_connection_made(w) ==
    LET w1 == [w EXCEPT !.rudp.transport = OpenTransport, !.rudp.peername = w.rudp.dst]
    IN RemoteUDP_write(w1, w1.rudp.data)

\* the address header RemoteUDP.datagram_received puts before the payload
\* (lines 321-331); ok = FALSE when inet_pton raises or the address has
\* neither "." nor ":"
reply_header(peername) ==
    LET addr == IF Contains(peername.addr, Dot) THEN inet_pton_v4(peername.addr)
                ELSE IF Contains(peername.addr, Colon) THEN inet_pton_v6(peername.addr)
                ELSE [ok |-> FALSE, bytes |-> <<>>]
    IN [ok |-> addr.ok, bytes |-> <<1>> \o addr.bytes \o pack_H(peername.port)]

\* RemoteUDP.datagram_received: the assert of line 319, a failing inet_pton or
\* the deleted self.local (after close) raise and nothing is sent
RemoteUDP_datagram_received(w, data, peername) ==
    IF w.rudp.peername # peername
    THEN [w EXCEPT !.unhandled = TRUE]
    ELSE IF ~reply_header(peername).ok
    THEN [w EXCEPT !.unhandled = TRUE]
    ELSE IF ~w.rudp.has_local
    THEN [w EXCEPT !.unhandled = TRUE]
    ELSE LocalHandler_write(w, w.rudp.local,
                            encrypt(reply_header(peername).bytes \o data))

\* RemoteUDP.error_received
RemoteUDP_error_received(w) == RemoteUDP_close(w)

\* RemoteUDP.connection_lost
RemoteUDP_connection_lost(w) == RemoteUDP_close(w)

\* ------------------------------------------------------------------ history
\* What the environment has delivered so far.  client_plain is the plaintext
\* the TCP client sent after its address header, in arrival order; up_recv is
\* the plaintext chunks the upstreams delivered, in arrival order; n_bad counts
\* the chunks on which decrypt raised and bad_h is the handler that got the
\* last of them; n_empty counts the chunks that decrypt to nothing and empty_h
\* is the handler that got the last of them; last_peer is the source endpoint
\* of the last client datagram.
NoHistory ==
    [n_chunks |-> 0, n_up |-> 0, n_dgrams |-> 0, n_bad |-> 0, bad_h |-> 0,
     n_empty |-> 0, empty_h |-> 0, last_peer |-> 0,
     header |-> "none", client_plain |-> <<>>, up_recv |-> <<>>, first_bad |-> FALSE,
     dgram_payloads |-> <<>>]

\* the client's stream after a chunk: the first non-empty plaintext carries the
\* address header, everything after it is payload
ClientSent(hs, data) ==
    LET d == decrypt(data)
    IN IF ~d.ok THEN [hs EXCEPT !.first_bad = @ \/ hs.n_chunks = 0,
                                !.n_bad = @ + 1, !.bad_h = TcpHandler]
       ELSE IF d.data = <<>> THEN [hs EXCEPT !.n_empty = @ + 1, !.empty_h = TcpHandler]
       ELSE IF hs.header = "none"
            THEN IF all_fields(parse_header(d.data))
                 THEN [hs EXCEPT !.header = "ok",
                                 !.client_plain = Drop(d.data, parse_header(d.data).header_length)]
                 ELSE [hs EXCEPT !.header = "bad"]
            ELSE IF hs.header = "ok"
                 THEN [hs EXCEPT !.client_plain = @ \o d.data]
                 ELSE hs

\* the payloads of the client datagrams that carry a valid address header
DatagramSent(hs, data, peer) ==
    LET d == decrypt(data)
    IN IF ~d.ok THEN [hs EXCEPT !.n_bad = @ + 1, !.bad_h = peer]
       ELSE IF d.data = <<>> THEN [hs EXCEPT !.n_empty = @ + 1, !.empty_h = peer]
       ELSE IF all_fields(parse_header(d.data))
       THEN [hs EXCEPT !.dgram_payloads =
                           Append(@, Drop(d.data, parse_header(d.data).header_length))]
       ELSE hs

\* ------------------------------------------------------------------- state
InitState ==
    [proto |-> [h \in Handlers |-> NO_PROTOCOL],
     stage |-> [h \in Handlers |-> STAGE_NONE],
     is_closing |-> [h \in Handlers |-> FALSE],
     connect_buffer |-> [h \in Handlers |-> <<>>],
     remote |-> [h \in Handlers |-> 0],
     ltrans |-> NoTransport @@ ClientSide,
     tasks |-> [t \in TaskIds |-> NoTask],
     rem |-> [t \in TaskIds |-> NoRemote],
     gauge |-> 0,
     user_tcp_decs |-> 0,
     record_ip |-> 0,
     udp_sent |-> <<>>,
     protocols |-> {},
     rudp |-> NoRemoteUDP,
     udp_up |-> <<>>,
     error_seen |-> [h \in Handlers |-> FALSE],
     unhandled |-> FALSE,
     hist |-> NoHistory]

\* the variables hold the program state w
Installed(w) ==
    /\ proto = w.proto
    /\ stage = w.stage
    /\ is_closing = w.is_closing
    /\ connect_buffer = w.connect_buffer
    /\ remote = w.remote
    /\ ltrans = w.ltrans
    /\ tasks = w.tasks
    /\ rem = w.rem
    /\ gauge = w.gauge
    /\ user_tcp_decs = w.user_tcp_decs
    /\ record_ip = w.record_ip
    /\ udp_sent = w.udp_sent
    /\ protocols = w.protocols
    /\ rudp = w.rudp
    /\ udp_up = w.udp_up
    /\ error_seen = w.error_seen
    /\ unhandled = w.unhandled
    /\ hist = w.hist

Init == Installed(InitState)

\* The upstream endpoints a RemoteUDP is connected to.
Endpoints ==
    {[addr |-> a, port |-> p] :
        a \in {<<8, Dot, 8, Dot, 8, Dot, 8>>,
               <<93, Dot, 184, Dot, 216, Dot, 34>>,
               <<8193, Colon, 3512, Colon, 0, Colon, 0, Colon, 0, Colon, 0, Colon, 0, Colon, 1>>,
               <<9734, Colon, 18176, Colon, 0, Colon, 0, Colon, 0, Colon, 0, Colon, 0, Colon, 4369>>,
               <<0, Colon, 0, Colon, 0, Colon, 0, Colon, 0, Colon, 65535, Colon,
                 127, Dot, 0, Dot, 0, Dot, 1>>},
        p \in {53, 123, 443}}

\* A RemoteUDP in isolation: the UDP handler of one client endpoint, and a
\* RemoteUDP constructed for it toward one upstream endpoint.
InitReply ==
    \E e \in Endpoints :
        Installed(RemoteUDP_init(
                      handle_connection_made([InitState EXCEPT !.protocols = {1}],
                                             1, TRANSPORT_UDP),
                      e.addr, e.port, <<64>>, 1))

\* the upstreams whose connection_made has run
Made == {r \in TaskIds : rem[r].made}

\* ----------------------------------------------------------------- actions
\* the listening socket accepts the client: LocalTCP.connection_made
Accept ==
    /\ ltrans.st = "none"
    /\ Commit(LocalTCP_connection_made(Cur))

\* a chunk arrives from the client: LocalTCP.data_received
ClientData ==
    \E c \in StreamChunks(stage[TcpHandler], hist.n_chunks + 1) :
        /\ ltrans.st = "open" /\ ~ltrans.paused
        /\ hist.n_chunks < MaxChunks
        /\ Spawns(Cur, TcpHandler, c) => FreeTasks(Cur) # {}
        /\ Commit([LocalTCP_data_received(Cur, c) EXCEPT
                      !.hist = [ClientSent(@, c) EXCEPT
                                   !.n_chunks = @ + 1]])

\* the client half-closes: LocalTCP.eof_received
ClientEof ==
    /\ ltrans.st = "open" /\ ~ltrans.paused
    /\ Commit(LocalTCP_eof_received(Cur))

\* the client resets the connection: the event loop marks the transport
\* closing, stops reading from it and schedules connection_lost; no callback
\* of the program runs in this step
ClientReset ==
    /\ ltrans.st = "open"
    /\ Commit([Cur EXCEPT !.ltrans.st = "closing"])

\* the scheduled connection_lost of a closing client transport (closed by
\* close() or reset by the peer) is delivered: LocalTCP.connection_lost
ClientLost ==
    /\ ltrans.st = "closing"
    /\ Commit(LocalTCP_connection_lost([Cur EXCEPT !.ltrans.st = "lost"]))

\* the event loop runs the first step of a spawned handshake task; the ready
\* queue is first-in first-out, so tasks start in the order they were created
HandshakeStart ==
    \E t \in TaskIds :
        /\ tasks[t].pc = "spawned"
        /\ \A u \in TaskIds : u < t => tasks[u].pc # "spawned"
        /\ Commit(handle_stage_init_start(Cur, t))

\* the outbound connect succeeds: the RemoteTCP is built and connection_made runs
UpstreamConnected ==
    \E t \in TaskIds :
        /\ tasks[t].pc = "awaiting"
        /\ ~rem[t].made
        /\ Commit(RemoteTCP_connection_made(Cur, t))

\* the outbound connect fails: the await raises inside the handshake task
ConnectFailed ==
    \E t \in TaskIds :
        /\ tasks[t].pc = "awaiting"
        /\ ~rem[t].made
        /\ Commit(handle_stage_init_failed(Cur, t))

\* the handshake task resumes after the awaited connect returned
HandshakeResume ==
    \E t \in TaskIds :
        /\ tasks[t].pc = "awaiting"
        /\ rem[t].made
        /\ Commit(handle_stage_init_resume(Cur, t))

\* a chunk arrives from the upstream: RemoteTCP.data_received
UpstreamData ==
    \E r \in TaskIds, d \in {UpChunk(hist.n_up + 1)} :
        /\ rem[r].transport.st = "open" /\ ~rem[r].transport.paused
        /\ hist.n_up < MaxUpChunks
        /\ Commit([RemoteTCP_data_received(Cur, r, d) EXCEPT
                      !.hist.n_up = @ + 1,
                      !.hist.up_recv = Append(@, d)])

\* a chunk arrives from the upstream and the write to the client transport
\* takes its buffer over the high-water mark: RemoteTCP.data_received, and
\* inside transport.write the call of LocalTCP.pause_writing
UpstreamDataFull ==
    \E r \in TaskIds, d \in {UpChunk(hist.n_up + 1)} :
        /\ rem[r].transport.st = "open" /\ ~rem[r].transport.paused
        /\ hist.n_up < MaxUpChunks
        /\ ltrans.st = "open" /\ ~ltrans.protocol_paused
        /\ Commit([LocalTCP_pause_writing(
                       [RemoteTCP_data_received(Cur, r, d) EXCEPT
                           !.ltrans.protocol_paused = TRUE]) EXCEPT
                      !.hist.n_up = @ + 1,
                      !.hist.up_recv = Append(@, d)])

\* the client transport's write buffer drains below the low-water mark, also
\* while the transport is closing and flushes what is left:
\* LocalTCP.resume_writing
ClientDrained ==
    /\ ltrans.st \in {"open", "closing"} /\ ltrans.protocol_paused
    /\ Commit(LocalTCP_resume_writing([Cur EXCEPT !.ltrans.protocol_paused = FALSE]))

\* a holder of the RemoteTCP calls its pause_reading(): the event loop stops
\* reading from the client transport, so neither a chunk nor the EOF of the
\* client is delivered until resume_reading()
\* (every RemoteTCP of the session reaches the same client transport, and a
\* call that finds it closing or already paused changes nothing)
RemotePauseReading ==
    /\ Made # {}
    /\ ltrans.st = "open" /\ ~ltrans.paused
    /\ Commit(RemoteTCP_pause_reading(Cur, CHOOSE r \in Made : TRUE))

\* a holder of the RemoteTCP calls its resume_reading()
RemoteResumeReading ==
    /\ Made # {}
    /\ ltrans.st = "open" /\ ltrans.paused
    /\ Commit(RemoteTCP_resume_reading(Cur, CHOOSE r \in Made : TRUE))

\* the upstream half-closes: RemoteTCP.eof_received
UpstreamEof ==
    \E r \in TaskIds :
        /\ rem[r].transport.st = "open"
        /\ Commit(RemoteTCP_eof_received(Cur, r))

\* the upstream resets the connection: the event loop marks the transport
\* closing, stops reading from it and schedules connection_lost; no callback
\* of the program runs in this step
UpstreamReset ==
    \E r \in TaskIds :
        /\ rem[r].transport.st = "open"
        /\ Commit([Cur EXCEPT !.rem[r].transport.st = "closing"])

\* the scheduled connection_lost of a closing upstream transport is
\* delivered: RemoteTCP.connection_lost
UpstreamLost ==
    \E r \in TaskIds :
        /\ rem[r].transport.st = "closing"
        /\ Commit(RemoteTCP_connection_lost([Cur EXCEPT !.rem[r].transport.st = "lost"], r))

\* a datagram arrives at the UDP acceptor: LocalUDP.datagram_received
ClientDatagram ==
    \E c \in ClientChunks(hist.n_dgrams + 1), p \in Peers :
        /\ hist.n_dgrams < MaxDgrams
        /\ Spawns(handle_connection_made(Cur, p, TRANSPORT_UDP), p, c) /\ p \notin protocols
               => FreeTasks(Cur) # {}
        /\ Spawns(Cur, p, c) => FreeTasks(Cur) # {}
        /\ Commit([LocalUDP_datagram_received(Cur, c, p) EXCEPT
                      !.hist = [DatagramSent(@, c, p) EXCEPT
                                   !.n_dgrams = @ + 1, !.last_peer = p]])

\* the datagram endpoint is ready: RemoteUDP.connection_made
ReplyConnected ==
    /\ rudp.exists /\ rudp.transport.st = "none" /\ ~rudp.is_closing
    /\ Commit(RemoteUDP_connection_made(Cur))

\* a datagram arrives from the connected upstream: RemoteUDP.datagram_received
UpstreamDatagram ==
    \E d \in {UpChunk(hist.n_up + 1)} :
        /\ rudp.transport.st = "open"
        /\ hist.n_up < MaxReplies
        /\ Commit([RemoteUDP_datagram_received(Cur, d, rudp.peername) EXCEPT
                      !.hist.n_up = @ + 1,
                      !.hist.up_recv = Append(@, d)])

\* the upstream socket reports an error: RemoteUDP.error_received
UpstreamError ==
    /\ rudp.transport.st = "open"
    /\ Commit(RemoteUDP_error_received(Cur))

\* the upstream socket is gone: RemoteUDP.connection_lost
ReplyLost ==
    /\ rudp.transport.st \in {"open", "closing"}
    /\ Commit(RemoteUDP_connection_lost([Cur EXCEPT !.rudp.transport.st = "lost"]))

NextReply ==
    \/ ReplyConnected
    \/ UpstreamDatagram
    \/ UpstreamError
    \/ ReplyLost

SpecReply == InitReply /\ [][NextReply]_vars

NextTCP ==
    \/ Accept
    \/ ClientData
    \/ ClientEof
    \/ ClientReset
    \/ ClientLost
    \/ HandshakeStart
    \/ UpstreamConnected
    \/ ConnectFailed
    \/ HandshakeResume
    \/ UpstreamData
    \/ UpstreamDataFull
    \/ ClientDrained
    \/ RemotePauseReading
    \/ RemoteResumeReading
    \/ UpstreamEof
    \/ UpstreamReset
    \/ UpstreamLost

NextUDP ==
    \/ ClientDatagram
    \/ HandshakeStart

SpecTCP == Init /\ [][NextTCP]_vars

SpecUDP == Init /\ [][NextUDP]_vars


\* ============================================================== properties
\* the bytes an upstream transport was given, in write order
UpBytes(r) == Flat([i \in 1..Len(rem[r].writes) |-> rem[r].writes[i].data])

\* this step is a client chunk that the session forwards in STREAM
ForwardedInStream ==
    /\ hist'.n_chunks = hist.n_chunks + 1
    /\ stage[TcpHandler] = STAGE_STREAM
    /\ remote[TcpHandler] # 0
    /\ Len(rem'[remote[TcpHandler]].writes) = Len(rem[remote[TcpHandler]].writes) + 1

\* every upstream has been written a prefix of the client's post-header stream
UpstreamsArePrefixes ==
    hist.header = "ok" => \A r \in Made : IsPrefix(UpBytes(r), hist.client_plain)

\* the session's upstream has been written the whole post-header stream
UpstreamIsComplete ==
    hist.header = "ok" =>
        remote[TcpHandler] # 0 /\ UpBytes(remote[TcpHandler]) = hist.client_plain

\* C1: TCP client-to-upstream byte preservation.  The bytes written to an
\* upstream are at all times a prefix of the client's post-header plaintext
\* in arrival order, and when the session forwards a chunk in STREAM the
\* upstream has every post-header byte that arrived so far (none is lost,
\* duplicated, reordered or left behind in the connect buffer).
C1_UpstreamIsClientStream ==
    [][/\ UpstreamsArePrefixes'
       /\ ForwardedInStream => UpstreamIsComplete']_vars

\* the gauge the TCP session and its remotes account for
HalvesOpen ==
    (IF proto[TcpHandler] = TRANSPORT_TCP /\ ~is_closing[TcpHandler] THEN 1 ELSE 0)
    + Cardinality({r \in Made : ~rem[r].is_closing})

\* the program state without the history and without the client transport's
\* own connection state (connection_lost is the environment's doing)
Observable ==
    <<proto, stage, is_closing, connect_buffer, remote, ltrans.closes, ltrans.out,
      tasks, rem, gauge, user_tcp_decs, record_ip, udp_sent, protocols, rudp, udp_up>>

\* C2: session close is idempotent.  Over any sequence of events that call
\* LocalHandler.close on the session, the session decrements the gauge exactly
\* once, decrements the per-user TCP counter at most once, closes the client
\* transport at most once, and a call after the first changes nothing.
C2_CloseIdempotent ==
    [][/\ gauge' = HalvesOpen'
       /\ user_tcp_decs' <= 1
       /\ ltrans'.closes <= 1
       /\ is_closing[TcpHandler] /\ ltrans.st # "lost" /\ ltrans'.st = "lost"
              => Observable' = Observable]_vars

\* C3: no stage regression.  Every stage change is INIT -> CONNECT,
\* CONNECT -> STREAM, a move to ERROR or a move to DESTROY, and a stage of
\* DESTROY never changes again, also when a handshake task runs or resumes
\* after the session was closed.
C3_NoStageRegression ==
    [][\A h \in Handlers :
          \/ stage'[h] = stage[h]
          \/ stage[h] = STAGE_NONE /\ stage'[h] \in {STAGE_INIT, STAGE_DESTROY}
          \/ stage[h] = STAGE_INIT /\ stage'[h] = STAGE_CONNECT
          \/ stage[h] = STAGE_CONNECT /\ stage'[h] = STAGE_STREAM
          \/ stage[h] # STAGE_DESTROY /\ stage'[h] \in {STAGE_ERROR, STAGE_DESTROY}]_vars

\* C4: session-to-remote close propagation.  Once the session's closing latch
\* is set, no upstream connection made for it stays open past the handshake
\* task that owns it: when that task has finished, the remote is closed.
C4_ClosedSessionClosesRemote ==
    \A r \in Made :
        is_closing[rem[r].local] /\ tasks[r].pc = "done" => rem[r].is_closing

\* the flush writes of all upstreams of the session
Flushes ==
    {<<r, i>> \in TaskIds \X (1..(MaxChunks + 1)) :
        i <= Len(rem[r].writes) /\ rem[r].writes[i].kind = "flush"}

\* at most one flush in the session, first among its upstream's writes
FlushedOnceFirst ==
    /\ Cardinality(Flushes) <= 1
    /\ \A r \in Made : rem[r].writes[1].kind = "flush"
    /\ \A r \in TaskIds : rem[r].writes # <<>> => rem[r].made

\* C5: pending is flushed first.  The connect buffer is written to an upstream
\* exactly once per session, as one write at connection_made that precedes
\* every STREAM write, and that write carries exactly the post-header bytes
\* that arrived so far, in arrival order.
C5_PendingFlushedOnceFirst ==
    [][/\ FlushedOnceFirst'
       /\ \A r \in TaskIds :
              ~rem[r].made /\ rem'[r].made
                  => rem'[r].writes = <<[kind |-> "flush", data |-> hist.client_plain]>>]_vars

\* C6: pending is not used after the drain.  Once the connect buffer has been
\* written to the upstream at connection_made, nothing is appended to it,
\* whatever arrives before the handshake task installs the remote.
C6_NoAppendAfterDrain ==
    [][\A h \in Handlers :
          (\E r \in Made : rem[r].local = h) => connect_buffer'[h] = connect_buffer[h]]_vars

\* what the client transport was given is encrypt of the first upstream chunks
OutIsEncryptedPrefix ==
    /\ Len(ltrans.out) <= Len(hist.up_recv)
    /\ ltrans.out = [i \in 1..Len(ltrans.out) |-> encrypt(hist.up_recv[i])]

\* C7: reverse TCP byte preservation.  The chunks written to the client are
\* encrypt applied, chunk by chunk, to a prefix of the upstream chunks in
\* arrival order; a chunk that arrives while the client transport is closing
\* is dropped, and nothing is written to the client once it has been closed.
C7_ReversePreserved ==
    [][/\ OutIsEncryptedPrefix'
       /\ transport_is_closing(ltrans) => ltrans'.out = ltrans.out
       /\ hist'.n_up = hist.n_up + 1 /\ ~transport_is_closing(ltrans)
              => ltrans'.out = Append(ltrans.out, encrypt(UpChunk(hist'.n_up)))]_vars

\* one upstream chunk reached the client, the next one was dropped because the
\* client transport was closing
C7_Witness ==
    /\ hist.up_recv = <<UpChunk(1), UpChunk(2)>>
    /\ ltrans.out = <<encrypt(UpChunk(1))>>
    /\ transport_is_closing(ltrans)

\* this step delivers a chunk on which decrypt raises
DecryptFailed == hist'.n_bad = hist.n_bad + 1

\* C10: decrypt failure is fatal.  A chunk on which decrypt raises closes the
\* session in that event (stage DESTROY, latch set, TCP client transport
\* closed) and is neither buffered nor forwarded; when it is the first chunk
\* of a TCP session no connect is ever attempted and the gauge is back at its
\* value before the accept.
C10_DecryptFailureFatal ==
    [][/\ DecryptFailed =>
             /\ stage'[hist'.bad_h] = STAGE_DESTROY
             /\ is_closing'[hist'.bad_h]
             /\ proto'[hist'.bad_h] = TRANSPORT_TCP => transport_is_closing(ltrans') /\ ltrans'.closes = 1
             /\ connect_buffer' = connect_buffer
             /\ \A r \in TaskIds : rem'[r].writes = rem[r].writes
             /\ tasks' = tasks
       /\ hist'.first_bad =>
             /\ \A t \in TaskIds : tasks'[t].pc = "none" /\ ~rem'[t].made
             /\ gauge' = 0]_vars

C10_Witness ==
    /\ hist.first_bad
    /\ ltrans.st = "lost"
    /\ stage[TcpHandler] = STAGE_DESTROY


\* C8: UDP 1:1 relay.  When no handshake task is waiting to run, the upstream
\* datagrams are exactly the payloads of the client datagrams that carried a
\* valid header, one per datagram and in order, and every datagram received
\* from an upstream produced one reply to the client.
C8_UdpOneToOne ==
    (\A t \in TaskIds : tasks[t].pc # "spawned") =>
        /\ udp_up = hist.dgram_payloads
        /\ Len(udp_sent) = Len(hist.up_recv)

\* the address family of a textual address
IsIPv4(addr) == Contains(addr, Dot)

\* C9: UDP reply header.  The plaintext of every reply datagram is
\* ATYP || packed(addr) || be16(port) || R for the upstream source endpoint:
\* ATYP 0x01 and 4 address bytes for IPv4, ATYP 0x04 and 16 for IPv6.
C9_ReplyHeader ==
    \A i \in 1..Len(udp_sent) :
        LET plain == decrypt(udp_sent[i].data).data
            src == rudp.peername
            n == IF IsIPv4(src.addr) THEN 4 ELSE 16
        IN /\ Len(plain) = 1 + n + 2 + Len(hist.up_recv[i])
           /\ plain[1] = (IF IsIPv4(src.addr) THEN 1 ELSE 4)
           /\ SubSeq(plain, 2, 1 + n) =
                  (IF IsIPv4(src.addr) THEN inet_pton_v4(src.addr).bytes
                   ELSE inet_pton_v6(src.addr).bytes)
           /\ plain[n + 2] * 256 + plain[n + 3] = src.port
           /\ Drop(plain, n + 3) = hist.up_recv[i]

\* C11: TCP connect failure.  Once the outbound connect of a TCP session has
\* failed (the only place that assigns STAGE_ERROR to a TCP session), the
\* stage is DESTROY, the client transport has been closed, no remote is
\* installed, nothing was written to the client, the pending bytes were
\* written to no upstream, and the gauge is back at its value before the
\* accept.
C11_ConnectFailure ==
    error_seen[TcpHandler] =>
        /\ stage[TcpHandler] = STAGE_DESTROY
        /\ is_closing[TcpHandler]
        /\ transport_is_closing(ltrans) /\ ltrans.closes = 1
        /\ remote[TcpHandler] = 0
        /\ ltrans.out = <<>>
        /\ \A r \in TaskIds : rem[r].writes = <<>>
        /\ gauge = 0

\* C12: remote-to-session close propagation.  An upstream whose
\* connection_lost was delivered has run RemoteTCP.close (a reset transport
\* whose connection_lost is still scheduled has not); a closed upstream has had
\* its transport closed and its session closed in the same event; however many
\* close-triggering events both halves see, the body of RemoteTCP.close and
\* the body of LocalHandler.close each ran exactly once (one transport.close()
\* each) and the gauge was decremented exactly once per closed half.
C12_RemoteClosePropagates ==
    /\ \A r \in Made :
           /\ rem[r].transport.st = "lost" => rem[r].is_closing
           /\ rem[r].is_closing =>
                  /\ transport_is_closing(rem[r].transport)
                  /\ rem[r].transport.closes = 1
                  /\ is_closing[rem[r].local]
                  /\ ltrans.closes = 1
           /\ ~rem[r].is_closing => rem[r].transport.closes = 0
    /\ ltrans.closes = (IF is_closing[TcpHandler] THEN 1 ELSE 0)
    /\ gauge = HalvesOpen

\* the installed upstream and the client both saw connection_lost after the
\* close, so close was called several times on each half
C12_Witness ==
    /\ remote[TcpHandler] # 0
    /\ rem[remote[TcpHandler]].transport.st = "lost"
    /\ ltrans.st = "lost"
    /\ rem[remote[TcpHandler]].transport.closes = 1
    /\ ltrans.closes = 1
    /\ gauge = 0

\* the state of one session
Session(h) == <<proto[h], stage[h], is_closing[h], connect_buffer[h], remote[h]>>

\* C13: UDP demultiplexing.  The map holds exactly the client endpoints that
\* have a session, one each; a datagram creates a session (with
\* handle_connection_made) only when its source endpoint has no entry, an
\* endpoint that has an entry keeps its session as it is (a closed one stays
\* closed), and the datagram is delivered to the session of its own source
\* endpoint: no other session changes and a handshake task it spawns belongs
\* to that session.
C13_UdpDemux ==
    [][hist'.n_dgrams = hist.n_dgrams + 1 =>
          /\ protocols' = protocols \cup {hist'.last_peer}
          /\ protocols' = {q \in Peers : proto'[q] = TRANSPORT_UDP}
          /\ hist'.last_peer \in protocols =>
                 /\ proto'[hist'.last_peer] = proto[hist'.last_peer]
                 /\ stage[hist'.last_peer] = STAGE_DESTROY
                        => stage'[hist'.last_peer] = STAGE_DESTROY
          /\ \A q \in Handlers \ {hist'.last_peer} : Session(q)' = Session(q)
          /\ \A t \in TaskIds :
                 tasks'[t] # tasks[t] => tasks'[t].h = hist'.last_peer]_vars

\* both client endpoints have a session and one of them got a later datagram
C13_Witness ==
    /\ protocols = Peers
    /\ hist.n_dgrams > Cardinality(Peers)

\* C14: UDP session eviction.  The entry of a closed UDP session does not stay
\* in the map: a later datagram from the same client endpoint that decrypts
\* is handled by a live session, not by the closed one.
C14_ClosedSessionEvicted ==
    [][(/\ hist'.n_dgrams = hist.n_dgrams + 1
        /\ hist'.n_bad = hist.n_bad
        /\ is_closing[hist'.last_peer])
           => ~is_closing'[hist'.last_peer]]_vars

\* the upstreams of the TCP session whose transport is open
OpenUpstreams == {r \in Made : rem[r].local = TcpHandler /\ rem[r].transport.st = "open"}

\* C15: flow control upstream -> client.  pause_writing and resume_writing
\* complete without raising and leave the stage, the pending buffer and the
\* bytes given to the client alone; after pause_writing reading is paused on
\* the session's open upstreams, after resume_writing it is resumed, and no
\* upstream chunk is delivered while the client side is paused.
C15_FlowControl ==
    [][/\ unhandled' = unhandled
       /\ ~ltrans.protocol_paused /\ ltrans'.protocol_paused
              => /\ \A r \in OpenUpstreams : rem'[r].transport.paused
                 /\ stage' = stage /\ connect_buffer' = connect_buffer
                 /\ ltrans'.out = Append(ltrans.out, encrypt(UpChunk(hist'.n_up)))
       /\ ltrans.protocol_paused /\ ~ltrans'.protocol_paused /\ ltrans'.st = "open"
              => /\ \A r \in OpenUpstreams : ~rem'[r].transport.paused
                 /\ stage' = stage /\ connect_buffer' = connect_buffer
                 /\ ltrans'.out = ltrans.out
       /\ hist'.n_up = hist.n_up + 1 => ~ltrans.protocol_paused]_vars

\* C16: empty decrypt is a no-op.  A chunk that decrypts to nothing leaves the
\* stage, the pending buffer, the remote reference and the closing latch of
\* every session as they were (a UDP session created for the datagram is in
\* INIT), spawns no handshake task, starts no connect and writes nothing to
\* any upstream.
C16_EmptyIsNoOp ==
    [][hist'.n_empty = hist.n_empty + 1 =>
          /\ \/ stage' = stage
             \/ /\ hist'.empty_h \in Peers \ protocols
                /\ stage' = [stage EXCEPT ![hist'.empty_h] = STAGE_INIT]
          /\ connect_buffer' = connect_buffer
          /\ remote' = remote
          /\ is_closing' = is_closing
          /\ tasks' = tasks
          /\ rem' = rem
          /\ udp_up' = udp_up]_vars

\* the chunk after the header was empty and reached a session in CONNECT
\* whose remote is installed and ready
C16_Witness ==
    /\ hist.n_empty = 1
    /\ hist.n_chunks = 2
    /\ hist.client_plain = <<65>>
    /\ stage[TcpHandler] = STAGE_CONNECT
    /\ remote[TcpHandler] # 0
    /\ rem[remote[TcpHandler]].ready
    /\ UpBytes(remote[TcpHandler]) = <<65>>

\* C17: STREAM implies a ready remote.  A session whose stage is STREAM has a
\* remote installed, that remote's connection_made has run (it has a
\* transport, its ready flag is set and pending was flushed), so that
\* STREAM-stage forwarding always finds the remote and its transport.
C17_StreamHasReadyRemote ==
    \A h \in Handlers :
        stage[h] = STAGE_STREAM =>
            /\ remote[h] # 0
            /\ rem[remote[h]].made
            /\ rem[remote[h]].ready
            /\ rem[remote[h]].transport.st # "none"
            /\ rem[remote[h]].writes # <<>>
            /\ rem[remote[h]].writes[1].kind = "flush"

\* a session in STREAM that has forwarded a chunk to its upstream
C17_Witness ==
    /\ stage[TcpHandler] = STAGE_STREAM
    /\ remote[TcpHandler] # 0
    /\ \E i \in 1..Len(rem[remote[TcpHandler]].writes) :
           rem[remote[TcpHandler]].writes[i].kind = "stream"

\* C18: header parse failure.  When the first decrypted chunk of a TCP session
\* has no valid header and the handshake task spawned for it has run, the
\* session went through ERROR and is closed (stage DESTROY, latch set, client
\* transport closed), no upstream connect was started, and no payload byte
\* was buffered or forwarded.
C18_ParseFailure ==
    hist.header = "bad" /\ tasks[1].pc = "done" =>
        /\ error_seen[TcpHandler]
        /\ stage[TcpHandler] = STAGE_DESTROY
        /\ is_closing[TcpHandler]
        /\ transport_is_closing(ltrans)
        /\ \A t \in TaskIds : tasks[t].pc # "awaiting" /\ ~rem[t].made
        /\ connect_buffer[TcpHandler] = <<>>
        /\ \A t \in TaskIds : rem[t].writes = <<>>

\* the handshake tasks of the TCP session that have run parse_header
Parsed == {t \in TaskIds : tasks[t].h = TcpHandler /\ tasks[t].pc \in {"awaiting", "done"}}

\* C19: at most one handshake per TCP session.  Whatever chunks the client
\* sends, at most one handshake task parses a header, at most one connect is
\* pending, at most one RemoteTCP is created and record_user_ip is called at
\* most once.
C19_OneHandshake ==
    /\ Cardinality(Parsed) <= 1
    /\ Cardinality({t \in TaskIds : tasks[t].pc = "awaiting"}) <= 1
    /\ Cardinality(Made) <= 1
    /\ record_ip <= 1

\* the halves that are open: accepted client sessions (TCP and UDP) and
\* connected TCP remotes that have not been closed
OpenHalves ==
    Cardinality({h \in Handlers : proto[h] # NO_PROTOCOL /\ ~is_closing[h]})
    + Cardinality({r \in Made : ~rem[r].is_closing})

\* C20: active-connection gauge accounting.  The gauge is never below its
\* initial value and equals the initial value plus the number of open halves,
\* so it is back at the initial value when every half has closed.
C20_GaugeAccounting ==
    /\ gauge >= 0
    /\ gauge = OpenHalves

====
